---- MODULE Spec2Model ----
(***************************************************************************)
(* Model of GeometryEngine.generate_structure (src/core/geometry.py): the  *)
(* layout calculator and the FE-topology builder of the solar mounting     *)
(* structure generator.                                                    *)
(*                                                                         *)
(* Numbers.  Every length is an integer count of ticks of 0.0001 units, so *)
(* that the 3-decimal node key of the source (f"{x:.3f}") is a real        *)
(* rounding of the coordinate (10 ticks per printed digit).  The tilt      *)
(* angle is drawn from angles whose cosine, sine and tangent are rational  *)
(* (0 degrees, and the 3-4-5 angle of about 37 degrees), and the input     *)
(* lengths are multiples of 200 ticks (but for one purlin overhang of 2    *)
(* ticks, which is only added and halved after doubling), so that the      *)
(* products and quotients of the source are exact in the model.            *)
(*                                                                         *)
(* The structural analysis engine (Pynite's FEModel3D) is the model's      *)
(* `nodes` and `members`: add_node and add_member raise NameError when the *)
(* name is already present, the behaviour the try/except of lines 562-566  *)
(* relies on.                                                              *)
(***************************************************************************)
EXTENDS Integers, Sequences, FiniteSets, TLC

VARIABLES
    params,              \* the ParameterSet of this call
    pc,                  \* position in generate_structure
    err,                 \* "" or the exception that ended the call
    meshes,              \* list of emitted primitives
    column_heights,      \* as left by the last array copy (lines 247, 286)
    column_y_pos,        \* as left by the last array copy (lines 248, 287)
    rafter_x_nodes,      \* line 296
    panel_x_coords,      \* line 353
    raf_pur_inter_points,\* line 359
    pur_points,          \* line 360
    pur_pan_inter_points,\* line 362
    column_coords,       \* line 361
    all_fea_nodes,       \* line 466
    nodes,               \* model.nodes: node name -> coordinates
    members,             \* model.members: set of member names <<i_node, j_node>>
    requests,            \* every add_member call made so far, in order
    pidx,                \* number of purlins whose node process has completed
    one_purlin_nodes,    \* line 536
    node_names,          \* line 556
    ridx,                \* number of rafters whose process has completed
    one_rafter_nodes,    \* line 601
    one_rafter_names,    \* line 602
    call,                \* 1 during the first call of generate_structure, 2 during a repeat
    first,               \* what the first call left, once it has ended
    tilt_angle_default,  \* the list object bound to tilt_angle=[] at lines 49, 72
    rot_tup_default      \* the list object bound to rot_tup=[] at lines 49, 72

vars == <<params, pc, err, meshes, column_heights, column_y_pos, rafter_x_nodes,
          panel_x_coords, raf_pur_inter_points, pur_points, pur_pan_inter_points,
          column_coords, all_fea_nodes, nodes, members, requests, pidx,
          one_purlin_nodes, node_names, ridx, one_rafter_nodes, one_rafter_names,
          call, first, tilt_angle_default, rot_tup_default>>

\* what outlives one call
callVars == <<call, first, tilt_angle_default, rot_tup_default>>

----------------------------------------------------------------------------
(* Bounds of the explored inputs *)

MaxRows == 2
MaxCols == 3
MaxXCols == 2
MaxYCols == 3
MaxCopies == 2
\* rows * cols * copies_in_x * copies_in_y is kept at or below this
MaxPanels == 6

\* The explored combinations of <<angle, hor_panel_overhang, hor_purlin_overhang,
\* front_offset, purlin_offset, rafter_purlin_offset, raf_len>>: degrees, then
\* ticks.  The angles are 0 and the 3-4-5 angle (36.87 degrees); the overhangs
\* cover equal, purlin-longer (by 0.0002) and panel-longer; a front_offset of
\* 3000 equals the purlin offset.  A panel overhang of 6200 leaves a negative
\* total_width when cols = 1; a rafter_purlin_offset of 4000 makes the inward
\* rafter offset negative; a purlin_offset of 12000 is half the panel length,
\* so that the two purlins of a row coincide; a raf_len of 3400 is a rafter
\* section deeper than the purlin's.
Variants ==
    { <<37, 0, 0, 6000, 3000, 2000, 1500>>, <<37, 0, 2, 6000, 3000, 2000, 1500>>,
      <<37, 1200, 0, 6000, 3000, 2000, 1500>>,
      <<37, 1200, 1200, 3000, 3000, 2000, 1500>>,
      <<0, 1200, 1200, 6000, 3000, 2000, 1500>>, <<0, 0, 0, 3000, 3000, 2000, 1500>>,
      <<37, 6200, 6200, 6000, 3000, 2000, 1500>>,
      <<37, 0, 0, 6000, 3000, 4000, 1500>>,
      <<37, 0, 0, 6000, 12000, 2000, 1500>>,
      <<37, 0, 0, 6000, 3000, 2000, 3400>> }

\* the inputs that are the same in every explored call (ticks)
BaseParams ==
    [panel_length |-> 24000, panel_width |-> 12000, panel_thickness |-> 400,
     rear_offset |-> 6000, h_gap |-> 200, v_gap |-> 200, col_min_height |-> 20000,
     raf_wid |-> 1500, pur_len |-> 1500,
     blk_heigth |-> 10000, x_gap |-> 200000, y_gap |-> 100000]

ParameterSets ==
    { [rows |-> r, cols |-> c, x_cols |-> xc, y_cols |-> yc,
       copies_in_x |-> cpx, copies_in_y |-> cpy, angle |-> v[1],
       hor_panel_overhang |-> v[2], hor_purlin_overhang |-> v[3],
       front_offset |-> v[4], purlin_offset |-> v[5],
       rafter_purlin_offset |-> v[6], raf_len |-> v[7]] @@ BaseParams :
         r \in 1..MaxRows, c \in 1..MaxCols, xc \in 1..MaxXCols,
         yc \in 1..MaxYCols, cpx \in 1..MaxCopies, cpy \in 1..MaxCopies,
         v \in Variants }

----------------------------------------------------------------------------
(* Helpers *)

\* the concatenation of the sequences of ss, which all have the same length
Flatten(ss) ==
    IF ss = <<>> THEN <<>>
    ELSE LET w == Len(ss[1])
         IN  [k \in 1..(Len(ss) * w) |-> ss[((k - 1) \div w) + 1][((k - 1) % w) + 1]]

Range(s) == {s[n] : n \in DOMAIN s}

Max(a, b) == IF a >= b THEN a ELSE b

\* math.cos / math.sin / math.tan of math.radians(angle), as exact fractions
CosOf(angle, v) == IF angle = 0 THEN v ELSE (v * 4) \div 5
SinOf(angle, v) == IF angle = 0 THEN 0 ELSE (v * 3) \div 5
TanOf(angle, v) == IF angle = 0 THEN 0 ELSE (v * 3) \div 4

\* the array copies (i, j) in the order of the loops "for i ... for j ..."
Copies(p) ==
    [n \in 1..(p.copies_in_x * p.copies_in_y) |->
        <<(n - 1) \div p.copies_in_y, (n - 1) % p.copies_in_y>>]

----------------------------------------------------------------------------
(* --- 2. derived dimensions --- *)

horiz_spacing(p) == p.panel_width + p.h_gap
vert_spacing(p) == p.panel_length + p.v_gap
total_width(p) == p.cols * horiz_spacing(p) - p.h_gap - 2 * p.hor_panel_overhang
total_slope_length(p) == p.rows * vert_spacing(p) - p.v_gap
total_ground_length(p) == CosOf(p.angle, total_slope_length(p))

div_y(p) == Max(1, p.y_cols - 1)
\* variant of div_x: the count of gaps, without the floor of 1
div_x_gaps(p) == p.x_cols - 1
div_x(p) == Max(1, p.x_cols - 1)
y_spacing_ground(p) ==
    (total_ground_length(p) - CosOf(p.angle, p.front_offset + p.rear_offset))
        \div div_y(p)
x_spacing(p) == IF div_x(p) > 0 THEN total_width(p) \div div_x(p) ELSE 0

----------------------------------------------------------------------------
(* An emitted primitive.  kind and center are what the source passes to the *)
(* solid builder; copy (the array copy being generated) and slot (the       *)
(* component's position within its copy, in loop order) record the loop     *)
(* indices under which the primitive was appended; rot is the list of       *)
(* rotations the builder applies (lines 60-62, 124-126).                    *)

\* for i in range(len(tilt_angle)): part.rotate((0, 0, 0), rot_tup[i], tilt_angle[i])
Rotations(rot_tup, tilt_angle) ==
    [n \in DOMAIN tilt_angle |-> <<rot_tup[n], tilt_angle[n]>>]

Mesh(kind, center, copy, slot, rot) ==
    [kind |-> kind, center |-> center, copy |-> copy, slot |-> slot, rot |-> rot]

(* --- 3. columns and blocks --- *)

\* variant of ColumnX: the spacing expression, raf_wid shift included, is used
\* for a single column too
ColumnXSpaced(p, x_i) == p.hor_panel_overhang + x_i * x_spacing(p) - p.raf_wid
ColumnX(p, x_i) ==
    IF p.x_cols > 1
    THEN p.hor_panel_overhang + x_i * x_spacing(p) - p.raf_wid
    ELSE total_width(p) \div 2
ColumnY(p, y_i) == CosOf(p.angle, p.front_offset) + y_i * y_spacing_ground(p)
\* variant of calculated_height: the rise cy * tan(angle) is taken off
calculated_height_falling(p, y_i) ==
    p.col_min_height - TanOf(p.angle, ColumnY(p, y_i))
calculated_height(p, y_i) == p.col_min_height + TanOf(p.angle, ColumnY(p, y_i))

ColumnMesh(p, i, j, y_i, x_i) ==
    Mesh("Column",
         <<ColumnX(p, x_i) + p.x_gap * i, ColumnY(p, y_i) + p.y_gap * j,
           calculated_height(p, y_i) \div 2>>,
         <<i, j>>, y_i * p.x_cols + x_i,
         Rotations(<< <<0, 0, 1>> >>, <<180>>))
\* lines 276-283 pass neither tilt_angle nor rot_tup: the builder reads its
\* default lists
BlockMesh(p, i, j, y_i, x_i) ==
    Mesh("Block",
         <<ColumnX(p, x_i) + p.x_gap * i, ColumnY(p, y_i) + p.y_gap * j,
           -(p.blk_heigth \div 2)>>,
         <<i, j>>, y_i * p.x_cols + x_i,
         Rotations(rot_tup_default, tilt_angle_default))

\* the body of "for y_i ... for x_i ..." for the array copy (i, j)
ColumnsOfCopy(p, i, j) ==
    Flatten([n \in 1..(p.y_cols * p.x_cols) |->
        LET y_i == (n - 1) \div p.x_cols
            x_i == (n - 1) % p.x_cols
        IN  <<ColumnMesh(p, i, j, y_i, x_i), BlockMesh(p, i, j, y_i, x_i)>>])

ColumnMeshes(p) ==
    Flatten([n \in DOMAIN Copies(p) |->
        ColumnsOfCopy(p, Copies(p)[n][1], Copies(p)[n][2])])

(* --- 4. rafters --- *)

rafter_off(p) == p.purlin_offset - p.rafter_purlin_offset
rafter_mid_z(p) ==
    p.col_min_height + TanOf(p.angle, total_ground_length(p)) \div 2
        + p.raf_len \div 2
rafter_mid_y(p) ==
    (IF rafter_off(p) > 0 THEN CosOf(p.angle, rafter_off(p)) ELSE 0)
        + (total_ground_length(p) - 2 * CosOf(p.angle, rafter_off(p))) \div 2
rafter_height(p) == total_slope_length(p) - 2 * rafter_off(p)

RafterX(p, x_i) ==
    IF p.x_cols > 1
    THEN p.hor_panel_overhang + x_i * x_spacing(p)
    ELSE total_width(p) \div 2

RaftersOfCopy(p, i, j) ==
    [n \in 1..p.x_cols |->
        Mesh("Rafter",
             <<RafterX(p, n - 1) + p.x_gap * i, rafter_mid_y(p) + p.y_gap * j,
               rafter_mid_z(p)>>,
             <<i, j>>, n - 1, Rotations(<< <<1, 0, 0>> >>, <<90 + p.angle>>))]

RafterMeshes(p) ==
    Flatten([n \in DOMAIN Copies(p) |->
        RaftersOfCopy(p, Copies(p)[n][1], Copies(p)[n][2])])

\* rafter_x_nodes.append(rx): once per rafter of every array copy
RafterXNodes(p) ==
    Flatten([n \in DOMAIN Copies(p) |-> [x \in 1..p.x_cols |-> RafterX(p, x - 1)]])

(* --- 6. panels --- *)

local_y(p, r) == r * vert_spacing(p) + p.panel_length \div 2
local_x(p, c) == c * horiz_spacing(p) + p.panel_width \div 2
pan_y(p, r) == CosOf(p.angle, local_y(p, r))
Clearance == 200
stack_height(p) == p.raf_len + p.pur_len + p.panel_thickness \div 2 + Clearance
pan_z(p, r) == p.col_min_height + SinOf(p.angle, local_y(p, r)) + stack_height(p)

\* variant of PanelsOfCopy: the panel is emitted after the row loop, as the
\* x_coords entry of line 351 is, so once per panel column
PanelsOfCopyPerColumn(p, i, j) ==
    [n \in 1..p.cols |->
        Mesh("Panel",
             <<local_x(p, n - 1) + p.x_gap * i, pan_y(p, p.rows - 1) + p.y_gap * j,
               pan_z(p, p.rows - 1)>>,
             <<i, j>>, n - 1, Rotations(<< <<1, 0, 0>> >>, <<p.angle>>))]

PanelsOfCopy(p, i, j) ==
    [n \in 1..(p.cols * p.rows) |->
        LET c == (n - 1) \div p.rows
            r == (n - 1) % p.rows
        IN  Mesh("Panel",
                 <<local_x(p, c) + p.x_gap * i, pan_y(p, r) + p.y_gap * j,
                   pan_z(p, r)>>,
                 <<i, j>>, n - 1, Rotations(<< <<1, 0, 0>> >>, <<p.angle>>))]

PanelMeshes(p) ==
    Flatten([n \in DOMAIN Copies(p) |->
        PanelsOfCopy(p, Copies(p)[n][1], Copies(p)[n][2])])

x_coord(p, c) ==
    IF c > 1
    THEN local_x(p, c) - p.panel_width \div 2 - p.h_gap \div 2
    ELSE local_x(p, c) - p.panel_width \div 2

\* x_coords is never reset: one entry per panel column of every array copy
PanelXCoords(p) ==
    Flatten([n \in DOMAIN Copies(p) |-> [c \in 1..p.cols |-> x_coord(p, c - 1)]])

(* --- 5. purlins --- *)

purlin_spacing(p) == CosOf(p.angle, p.panel_length - p.purlin_offset * 2)
pur_y_pos_1(p, row) ==
    CosOf(p.angle, row * (p.panel_length + p.v_gap)) + CosOf(p.angle, p.purlin_offset)
pur_y_pos_2(p, row) == pur_y_pos_1(p, row) + purlin_spacing(p)
pur_z_pos_1(p, row) ==
    p.col_min_height + TanOf(p.angle, pur_y_pos_1(p, row)) + (p.raf_len * 3) \div 2
pur_z_pos_2(p, row) ==
    p.col_min_height + TanOf(p.angle, pur_y_pos_2(p, row)) + (p.raf_len * 3) \div 2

PurlinCx(p) == p.hor_panel_overhang + total_width(p) \div 2
perlin_height(p) == total_width(p) + 2 * p.hor_purlin_overhang

\* which = 0 is the upper purlin of the row (lines 381-396), 1 the lower (408-421)
PurlinY(p, row, which) == IF which = 0 THEN pur_y_pos_1(p, row) ELSE pur_y_pos_2(p, row)
PurlinZ(p, row, which) == IF which = 0 THEN pur_z_pos_1(p, row) ELSE pur_z_pos_2(p, row)

PurlinMesh(p, i, j, row, which) ==
    Mesh("Purlin",
         <<PurlinCx(p), PurlinY(p, row, which), PurlinZ(p, row, which)>>,
         <<i, j>>, 2 * row + which,
         Rotations(<< <<0, 1, 0>>, <<1, 0, 0>> >>, <<90, p.angle + 90>>))

\* variant of PurlinsOfCopy: only the upper purlin of each row is emitted
PurlinsOfCopyUpperOnly(p, i, j) ==
    [n \in 1..p.rows |-> PurlinMesh(p, i, j, n - 1, 0)]

PurlinsOfCopy(p, i, j) ==
    [n \in 1..(2 * p.rows) |-> PurlinMesh(p, i, j, (n - 1) \div 2, (n - 1) % 2)]

\* [p_*_end_left, p_*_end_right]
EndPoints(p, row, which) ==
    << <<PurlinCx(p) - perlin_height(p) \div 2, PurlinY(p, row, which),
         PurlinZ(p, row, which)>>,
       <<PurlinCx(p) + perlin_height(p) \div 2, PurlinY(p, row, which),
         PurlinZ(p, row, which)>> >>

\* [[x, cy, cz] for x in xs]
PointsAt(xs, p, row, which) ==
    [n \in DOMAIN xs |-> <<xs[n], PurlinY(p, row, which), PurlinZ(p, row, which)>>]

\* what one array copy appends to raf_pur_inter_points, pur_points and
\* pur_pan_inter_points: one [upper, lower] pair per row
RafPurOfCopy(p, rxn) ==
    [r \in 1..p.rows |-> <<PointsAt(rxn, p, r - 1, 0), PointsAt(rxn, p, r - 1, 1)>>]
PurPointsOfCopy(p) ==
    [r \in 1..p.rows |-> <<EndPoints(p, r - 1, 0), EndPoints(p, r - 1, 1)>>]
PurPanOfCopy(p, pxc) ==
    [r \in 1..p.rows |-> <<PointsAt(pxc, p, r - 1, 0), PointsAt(pxc, p, r - 1, 1)>>]

\* Equation z = m*y + c through up_per_raf_points[0] and low_per_raf_points[0]
\* of the last row.  m is the fraction SlopeDz / SlopeDy.
SlopeDz(p) == pur_z_pos_2(p, p.rows - 1) - pur_z_pos_1(p, p.rows - 1)
SlopeDy(p) == pur_y_pos_2(p, p.rows - 1) - pur_y_pos_1(p, p.rows - 1)
TimesM(p, v) == (SlopeDz(p) * v) \div SlopeDy(p)
Intercept(p) == pur_z_pos_2(p, p.rows - 1) - TimesM(p, pur_y_pos_2(p, p.rows - 1))
\* variant of ColumnTopHeight: the column's own height, col_min_height +
\* cy * tan(angle), is taken for the soffit height
ColumnTopHeightOfColumn(p, cyp) ==
    [k \in DOMAIN cyp |-> p.col_min_height + TanOf(p.angle, cyp[k])]
ColumnTopHeight(p, cyp) == [k \in DOMAIN cyp |-> TimesM(p, cyp[k]) + Intercept(p)]

\* variant of ColumnCoordsOfCopy: the top heights are taken in the opposite row
\* order to the Y-positions
ColumnCoordsOfCopyReversed(p, rxn, cyp) ==
    Flatten([n \in DOMAIN rxn |->
        [k \in DOMAIN cyp |->
            << <<rxn[n], cyp[k], 0>>,
               <<rxn[n], cyp[k], ColumnTopHeight(p, cyp)[Len(cyp) + 1 - k]>> >>]])
\* for x in rafter_x_nodes: for i in range(len(column_y_pos)): column_coords.append
ColumnCoordsOfCopy(p, rxn, cyp) ==
    Flatten([n \in DOMAIN rxn |->
        [k \in DOMAIN cyp |->
            << <<rxn[n], cyp[k], 0>>, <<rxn[n], cyp[k], ColumnTopHeight(p, cyp)[k]>> >>]])

\* the same value n times over
Repeat(s, n) == Flatten([k \in 1..n |-> s])

----------------------------------------------------------------------------
(* The call *)

\* no call has ended yet
NoResult == [ended |-> FALSE, err |-> "", meshes |-> <<>>, all_fea_nodes |-> <<>>,
             nodes |-> {}, members |-> {}]

Init ==
    /\ params \in {p \in ParameterSets :
                      p.rows * p.cols * p.copies_in_x * p.copies_in_y <= MaxPanels}
    /\ pc = "columns"
    /\ err = ""
    /\ meshes = <<>>
    /\ column_heights = <<>>
    /\ column_y_pos = <<>>
    /\ rafter_x_nodes = <<>>
    /\ panel_x_coords = <<>>
    /\ raf_pur_inter_points = <<>>
    /\ pur_points = <<>>
    /\ pur_pan_inter_points = <<>>
    /\ column_coords = <<>>
    /\ all_fea_nodes = <<>>
    /\ nodes = <<>>
    /\ members = {}
    /\ requests = <<>>
    /\ pidx = 0
    /\ one_purlin_nodes = <<>>
    /\ node_names = <<>>
    /\ ridx = 0
    /\ one_rafter_nodes = <<>>
    /\ one_rafter_names = <<>>
    /\ call = 1
    /\ first = NoResult
    /\ tilt_angle_default = <<>>
    /\ rot_tup_default = <<>>

feVars == <<all_fea_nodes, nodes, members, requests, pidx, one_purlin_nodes,
            node_names, ridx, one_rafter_nodes, one_rafter_names>>

\* lines 244-287
GenerateColumns ==
    /\ pc = "columns"
    /\ meshes' = meshes \o ColumnMeshes(params)
    /\ column_heights' = [k \in 1..params.y_cols |-> calculated_height(params, k - 1)]
    /\ column_y_pos' = [k \in 1..params.y_cols |-> ColumnY(params, k - 1)]
    /\ pc' = "rafters"
    /\ UNCHANGED <<callVars, params, err, rafter_x_nodes, panel_x_coords, raf_pur_inter_points,
                   pur_points, pur_pan_inter_points, column_coords, feVars>>

\* lines 292-321
GenerateRafters ==
    /\ pc = "rafters"
    /\ meshes' = meshes \o RafterMeshes(params)
    /\ rafter_x_nodes' = RafterXNodes(params)
    /\ pc' = "panels"
    /\ UNCHANGED <<callVars, params, err, column_heights, column_y_pos, panel_x_coords,
                   raf_pur_inter_points, pur_points, pur_pan_inter_points,
                   column_coords, feVars>>

\* lines 325-353
GeneratePanels ==
    /\ pc = "panels"
    /\ meshes' = meshes \o PanelMeshes(params)
    /\ panel_x_coords' = PanelXCoords(params)
    /\ pc' = "purlins"
    /\ UNCHANGED <<callVars, params, err, column_heights, column_y_pos, rafter_x_nodes,
                   raf_pur_inter_points, pur_points, pur_pan_inter_points,
                   column_coords, feVars>>

\* lines 358-460.  A zero SlopeDy makes line 446 raise ZeroDivisionError while
\* the first array copy is being generated.
GeneratePurlins ==
    /\ pc = "purlins"
    /\ LET n == IF SlopeDy(params) = 0 THEN 1 ELSE Len(Copies(params))
       IN  /\ meshes' = meshes \o
                 Flatten([k \in 1..n |->
                     PurlinsOfCopy(params, Copies(params)[k][1], Copies(params)[k][2])])
           /\ raf_pur_inter_points' = Repeat(RafPurOfCopy(params, rafter_x_nodes), n)
           /\ pur_points' = Repeat(PurPointsOfCopy(params), n)
           /\ pur_pan_inter_points' = Repeat(PurPanOfCopy(params, panel_x_coords), n)
    /\ IF SlopeDy(params) = 0
       THEN /\ pc' = "raised"
            /\ err' = "ZeroDivisionError"
            /\ column_coords' = column_coords
       ELSE /\ pc' = "fea"
            /\ err' = err
            /\ column_coords' =
                   Repeat(ColumnCoordsOfCopy(params, rafter_x_nodes, column_y_pos),
                          Len(Copies(params)))
    /\ UNCHANGED <<callVars, params, column_heights, column_y_pos, rafter_x_nodes,
                   panel_x_coords, feVars>>

\* lines 135-158: nothing for an empty list, else one marker primitive that holds
\* the points
create_nodes_plotly(nodes_list) ==
    IF nodes_list = <<>> THEN <<>>
    ELSE << [kind |-> "FEA Nodes", center |-> <<0, 0, 0>>, copy |-> <<0, 0>>,
             slot |-> 0, rot |-> <<>>, points |-> nodes_list] >>

\* variant of AllFeaNodes: the column segments are left out of the list
AllFeaNodesNoColumns(rpi, pp, ppi, cc) ==
    Flatten([i \in DOMAIN rpi |-> Flatten(rpi[i])])
        \o Flatten([i \in DOMAIN pp |-> Flatten(pp[i])])
        \o Flatten([i \in DOMAIN ppi |-> Flatten(ppi[i])])
\* lines 466-487
AllFeaNodes(rpi, pp, ppi, cc) ==
    Flatten([i \in DOMAIN rpi |-> Flatten(rpi[i])])
        \o Flatten([i \in DOMAIN pp |-> Flatten(pp[i])])
        \o Flatten([i \in DOMAIN ppi |-> Flatten(ppi[i])])
        \o Flatten(cc)

CollectFeaNodes ==
    /\ pc = "fea"
    /\ all_fea_nodes' =
           AllFeaNodes(raf_pur_inter_points, pur_points, pur_pan_inter_points,
                       column_coords)
    /\ meshes' = meshes \o create_nodes_plotly(all_fea_nodes')
    /\ pc' = "purlin_nodes"
    /\ UNCHANGED <<callVars, params, err, column_heights, column_y_pos, rafter_x_nodes,
                   panel_x_coords, raf_pur_inter_points, pur_points,
                   pur_pan_inter_points, column_coords, nodes, members, requests,
                   pidx, one_purlin_nodes, node_names, ridx, one_rafter_nodes,
                   one_rafter_names>>

----------------------------------------------------------------------------
(* Node names: f"N_{x:.3f}_{y:.3f}_{z:.3f}" *)

\* the magnitude a (ticks) rounded to 3 decimals, half to even
RoundMilli(a) ==
    LET q == a \div 10
        r == a % 10
    IN  IF r < 5 THEN q
        ELSE IF r > 5 THEN q + 1
        ELSE IF q % 2 = 0 THEN q ELSE q + 1

\* "{v:.3f}": the sign character of v, then the rounded magnitude; a negative
\* value that rounds to zero is printed "-0.000"
Fmt(v) == IF v < 0 THEN <<"-", RoundMilli(-v)>> ELSE <<"", RoundMilli(v)>>

NodeName(pt) == <<Fmt(pt[1]), Fmt(pt[2]), Fmt(pt[3])>>

\* f"M_{node_names[q]}_{node_names[q+1]}"
MemberName(a, b) == <<a, b>>

(* The structural model (FEModel3D): add_node and add_member raise NameError *)
(* for a name that is already present, add_member also for an unknown node.  *)

NodeExists(nd, name) == name \in DOMAIN nd
\* variant of AddNode: the node is stored under a name whose x and y parts are
\* swapped, not under the name that node_names keeps
AddNodeSwapped(nd, name, pt) == nd @@ (<<name[2], name[1], name[3]>> :> pt)
AddNode(nd, name, pt) == nd @@ (name :> pt)

----------------------------------------------------------------------------
(* Purlin node process, lines 534-579 *)

\* concat_points[concat_points[:,0].argsort()]: ascending X, insertion order kept
\* the position of s[n] after the sort
RankByX(s, n) ==
    1 + Cardinality({m \in DOMAIN s :
                        s[m][1] < s[n][1] \/ (s[m][1] = s[n][1] /\ m < n)})
SortByX(s) == [k \in DOMAIN s |-> s[CHOOSE n \in DOMAIN s : RankByX(s, n) = k]]

\* lines 536-552, for pur_points[i][j] (1-based here)
OnePurlinNodes(pp, rpi, ppi, i, j) ==
    <<pp[i][j][1]>> \o SortByX(rpi[i][j] \o ppi[i][j]) \o <<pp[i][j][2]>>

\* lines 556-566: try add_node, keep the name only when the node was created
RECURSIVE RegisterPurlinNodes(_, _, _)
RegisterPurlinNodes(pts, nd, names) ==
    IF pts = <<>> THEN [nodes |-> nd, names |-> names]
    ELSE LET node == NodeName(Head(pts))
         IN  IF NodeExists(nd, node)
             THEN RegisterPurlinNodes(Tail(pts), nd, names)
             ELSE RegisterPurlinNodes(Tail(pts), AddNode(nd, node, Head(pts)),
                                      Append(names, node))

\* for q in range(len(node_names)-1): model.add_member(...), from q (1-based)
RECURSIVE AddMembers(_, _, _, _, _, _)
AddMembers(names, q, nd, mem, req, phase) ==
    IF q > Len(names) - 1 THEN [members |-> mem, requests |-> req, err |-> ""]
    ELSE LET name == MemberName(names[q], names[q + 1])
             req2 == Append(req, [phase |-> phase, i_node |-> names[q],
                                  j_node |-> names[q + 1]])
         IN  IF name \in mem \/ ~NodeExists(nd, names[q])
                             \/ ~NodeExists(nd, names[q + 1])
             THEN [members |-> mem, requests |-> req2, err |-> "NameError: member"]
             ELSE AddMembers(names, q + 1, nd, mem \cup {name}, req2, phase)

NumPurlins == 2 * Len(pur_points)

geoVars == <<params, meshes, column_heights, column_y_pos, rafter_x_nodes,
             panel_x_coords, raf_pur_inter_points, pur_points,
             pur_pan_inter_points, column_coords, all_fea_nodes>>

\* lines 536-566 for the next purlin
PurlinNodes ==
    /\ pc = "purlin_nodes"
    /\ pidx < NumPurlins
    /\ LET opn == OnePurlinNodes(pur_points, raf_pur_inter_points,
                                 pur_pan_inter_points, (pidx \div 2) + 1, (pidx % 2) + 1)
           reg == RegisterPurlinNodes(opn, nodes, <<>>)
       IN  /\ one_purlin_nodes' = opn
           /\ nodes' = reg.nodes
           /\ node_names' = reg.names
    /\ pc' = "purlin_members"
    /\ UNCHANGED <<callVars, geoVars, err, members, requests, pidx, ridx, one_rafter_nodes,
                   one_rafter_names>>

\* lines 569-579 for the same purlin
PurlinMembers ==
    /\ pc = "purlin_members"
    /\ LET res == AddMembers(node_names, 1, nodes, members, requests, "purlin")
       IN  /\ members' = res.members
           /\ requests' = res.requests
           /\ err' = res.err
           /\ pc' = IF res.err # "" THEN "raised"
                    ELSE IF pidx + 1 < NumPurlins THEN "purlin_nodes"
                    ELSE "rafter_nodes"
    /\ pidx' = pidx + 1
    /\ UNCHANGED <<callVars, geoVars, nodes, one_purlin_nodes, node_names, ridx,
                   one_rafter_nodes, one_rafter_names>>

----------------------------------------------------------------------------
(* Rafter node process, lines 599-638 *)

\* lines 603-611: the names and points of rafter i's purlin crossings
RafterCrossings(rpi, i) ==
    Flatten([j \in DOMAIN rpi |-> [k \in 1..2 |-> rpi[j][k][i]]])

\* lines 613-621 from c (0-based): column_coords[i][c] is named, registered with
\* an unguarded add_node, and appended
RECURSIVE RafterColumnNodes(_, _, _, _, _, _, _)
RafterColumnNodes(cc, i, c, y_cols, nd, names, pts) ==
    IF c >= y_cols THEN [nodes |-> nd, names |-> names, pts |-> pts, err |-> ""]
    ELSE IF i > Len(cc) \/ c + 1 > Len(cc[i])
    THEN [nodes |-> nd, names |-> names, pts |-> pts, err |-> "IndexError"]
    ELSE LET column_node == cc[i][c + 1]
             node_name == NodeName(column_node)
         IN  IF NodeExists(nd, node_name)
             THEN [nodes |-> nd, names |-> Append(names, node_name), pts |-> pts,
                   err |-> "NameError: node"]
             ELSE RafterColumnNodes(cc, i, c + 1, y_cols,
                                    AddNode(nd, node_name, column_node),
                                    Append(names, node_name),
                                    Append(pts, column_node))

\* lines 601-621 for the next rafter
RafterNodes ==
    /\ pc = "rafter_nodes"
    /\ ridx < params.x_cols
    /\ LET cross == RafterCrossings(raf_pur_inter_points, ridx + 1)
           res == RafterColumnNodes(column_coords, ridx + 1, 0, params.y_cols, nodes,
                                    [n \in DOMAIN cross |-> NodeName(cross[n])],
                                    cross)
       IN  /\ nodes' = res.nodes
           /\ one_rafter_names' = res.names
           /\ one_rafter_nodes' = res.pts
           /\ err' = res.err
           /\ pc' = IF res.err # "" THEN "raised" ELSE "rafter_members"
    /\ UNCHANGED <<callVars, geoVars, members, requests, pidx, one_purlin_nodes, node_names,
                   ridx>>

\* lines 628-638 for the same rafter: the loop runs over node_names
RafterMemberNames(purlin_names, rafter_names) == purlin_names

RafterMembers ==
    /\ pc = "rafter_members"
    /\ LET res == AddMembers(RafterMemberNames(node_names, one_rafter_names), 1,
                             nodes, members, requests, "rafter")
       IN  /\ members' = res.members
           /\ requests' = res.requests
           /\ err' = res.err
           /\ pc' = IF res.err # "" THEN "raised"
                    ELSE IF ridx + 1 < params.x_cols THEN "rafter_nodes"
                    ELSE "return"
    /\ ridx' = ridx + 1
    /\ UNCHANGED <<callVars, geoVars, nodes, pidx, one_purlin_nodes, node_names,
                   one_rafter_nodes, one_rafter_names>>

\* line 641
Return ==
    /\ pc = "return"
    /\ pc' = "done"
    /\ UNCHANGED <<callVars, geoVars, err, nodes, members, requests, pidx, one_purlin_nodes,
                   node_names, ridx, one_rafter_nodes, one_rafter_names>>

Next ==
    \/ GenerateColumns
    \/ GenerateRafters
    \/ GeneratePanels
    \/ GeneratePurlins
    \/ CollectFeaNodes
    \/ PurlinNodes
    \/ PurlinMembers
    \/ RafterNodes
    \/ RafterMembers
    \/ Return

Spec == Init /\ [][Next]_vars

----------------------------------------------------------------------------
(* A repeat of the call with the same parameters.  The locals of the first  *)
(* call are gone, line 165 and line 508 start a new primitive list and a    *)
(* new structural model; the default-argument lists of the two builders     *)
(* (lines 49, 72) are the objects the first call used.                      *)

\* variant of FEModel3D: the structural model of the previous call is used again
FEModel3DShared == [nodes |-> nodes, members |-> members]
\* model = FEModel3D(), line 508
FEModel3D == [nodes |-> <<>>, members |-> {}]

\* what a call leaves to its caller: the exception or the primitives, the FE
\* point list and the names registered in the structural model
Result ==
    [ended |-> TRUE, err |-> err, meshes |-> meshes, all_fea_nodes |-> all_fea_nodes,
     nodes |-> DOMAIN nodes, members |-> members]

CallAgain ==
    /\ call = 1
    /\ pc \in {"done", "raised"}
    /\ first' = Result
    /\ call' = 2
    /\ pc' = "columns"
    /\ err' = ""
    /\ meshes' = <<>>
    /\ column_heights' = <<>>
    /\ column_y_pos' = <<>>
    /\ rafter_x_nodes' = <<>>
    /\ panel_x_coords' = <<>>
    /\ raf_pur_inter_points' = <<>>
    /\ pur_points' = <<>>
    /\ pur_pan_inter_points' = <<>>
    /\ column_coords' = <<>>
    /\ all_fea_nodes' = <<>>
    /\ nodes' = FEModel3D.nodes
    /\ members' = FEModel3D.members
    /\ requests' = <<>>
    /\ pidx' = 0
    /\ one_purlin_nodes' = <<>>
    /\ node_names' = <<>>
    /\ ridx' = 0
    /\ one_rafter_nodes' = <<>>
    /\ one_rafter_names' = <<>>
    /\ UNCHANGED <<params, tilt_angle_default, rot_tup_default>>

NextTwice ==
    \/ Next
    \/ CallAgain

SpecTwice == Init /\ [][NextTwice]_vars

----------------------------------------------------------------------------
(* Vocabulary of the properties *)

Kinds == {"Column", "Block", "Rafter", "Purlin", "Panel"}

\* the positions in meshes of the primitives of one kind / of one kind and copy
OfKind(kind) == {n \in DOMAIN meshes : meshes[n].kind = kind}
OfKindAndCopy(kind, copy) ==
    {n \in DOMAIN meshes : meshes[n].kind = kind /\ meshes[n].copy = copy}

NumCopies == params.copies_in_x * params.copies_in_y

\* line 353 has been passed / line 460 has been passed for every array copy
PanelsEmitted == pc \notin {"columns", "rafters", "panels"}
ComponentsEmitted ==
    pc \notin {"columns", "rafters", "panels", "purlins"} /\ err # "ZeroDivisionError"

\* the node process of a purlin has just run / its members have just been added
PurlinRegistered == pc = "purlin_members"
PurlinChained ==
    \/ pc = "purlin_nodes" /\ pidx > 0
    \/ pc = "rafter_nodes" /\ ridx = 0 /\ err = ""

\* a coordinate rounded to 3 decimals, as a number
Rounded(v) == IF v < 0 THEN -RoundMilli(-v) ELSE RoundMilli(v)
SameRounded(a, b) == \A k \in 1..3 : Rounded(a[k]) = Rounded(b[k])

\* the points whose names have been formatted for the purlin and the rafter
\* in hand (lines 561, 609, 618)
FormattedPoints == Range(one_purlin_nodes) \cup Range(one_rafter_nodes)

----------------------------------------------------------------------------
(* C1: the node sequence a purlin's members are created from is strictly  *)
(* increasing in X, whatever the two horizontal overhangs are.             *)
C1_PurlinChainAscending ==
    PurlinRegistered =>
        \A q \in 1..(Len(node_names) - 1) :
            nodes[node_names[q]][1] < nodes[node_names[q + 1]][1]

(* C2: the members of every purlin of every array copy form one chain from *)
(* its left-endpoint node to its right-endpoint node through a node at      *)
(* each of its rafter crossings and panel edges, one member per             *)
(* consecutive pair.                                                        *)
C2_PurlinChainComplete ==
    PurlinChained =>
        /\ node_names # <<>>
        /\ node_names[1] = NodeName(one_purlin_nodes[1])
        /\ node_names[Len(node_names)] =
               NodeName(one_purlin_nodes[Len(one_purlin_nodes)])
        /\ \A n \in DOMAIN one_purlin_nodes :
               NodeName(one_purlin_nodes[n]) \in Range(node_names)
        /\ \A q \in 1..(Len(node_names) - 1) :
               MemberName(node_names[q], node_names[q + 1]) \in members

(* C3: node registration is insert-or-get in every phase: a point whose    *)
(* key already has a node gets that node as its own, and registration      *)
(* never fails.                                                            *)
C3_InsertOrGet ==
    /\ err # "NameError: node"
    /\ PurlinRegistered =>
           \A n \in DOMAIN one_purlin_nodes :
               NodeName(one_purlin_nodes[n]) \in Range(node_names)

(* C4: every member requested in the rafter phase joins two consecutive    *)
(* nodes of that rafter's own point list, never of a purlin's node-name    *)
(* sequence.                                                               *)
C4_RafterMembersOwnPoints ==
    \A k \in DOMAIN requests :
        requests[k].phase = "rafter" =>
            \E q \in 1..(Len(one_rafter_names) - 1) :
                /\ one_rafter_names[q] = requests[k].i_node
                /\ one_rafter_names[q + 1] = requests[k].j_node

(* C5: when generation finishes, every support column has exactly one      *)
(* member between its ground node and its soffit node.                      *)
C5_ColumnMembers ==
    pc = "done" =>
        \A n \in DOMAIN column_coords :
            LET bottom == NodeName(column_coords[n][1])
                top == NodeName(column_coords[n][2])
            IN  Cardinality({m \in members :
                                m \in {MemberName(bottom, top),
                                       MemberName(top, bottom)}}) = 1

(* C6: the center of every component of array copy (i, j) is the center of *)
(* the corresponding component of copy (0, 0) plus (i*x_gap, j*y_gap, 0).   *)
C6_CopyOffset ==
    \A n \in DOMAIN meshes :
        meshes[n].kind \in Kinds =>
            \E b \in DOMAIN meshes :
                /\ meshes[b].kind = meshes[n].kind
                /\ meshes[b].slot = meshes[n].slot
                /\ meshes[b].copy = <<0, 0>>
                /\ meshes[n].center =
                       <<meshes[b].center[1] + meshes[n].copy[1] * params.x_gap,
                         meshes[b].center[2] + meshes[n].copy[2] * params.y_gap,
                         meshes[b].center[3]>>

(* C7: exactly rows * cols * copies_in_x * copies_in_y panel primitives    *)
(* are emitted.                                                            *)
C7_PanelCount ==
    PanelsEmitted =>
        Cardinality(OfKind("Panel")) = params.rows * params.cols * NumCopies
C7_Witness ==
    /\ pc = "done"
    /\ params.rows = 1 /\ params.cols = 3 /\ params.copies_in_y = 2
    /\ Cardinality(OfKind("Panel")) = 6

(* C8: every array copy gets x_cols * y_cols columns, as many ground       *)
(* blocks, x_cols rafters and 2 * rows purlins; the totals are these       *)
(* counts times copies_in_x * copies_in_y.                                 *)
PerCopy(kind) ==
    CASE kind = "Column" -> params.x_cols * params.y_cols
      [] kind = "Block" -> params.x_cols * params.y_cols
      [] kind = "Rafter" -> params.x_cols
      [] kind = "Purlin" -> 2 * params.rows
C8_ComponentCounts ==
    ComponentsEmitted =>
        \A kind \in {"Column", "Block", "Rafter", "Purlin"} :
            /\ \A i \in 0..(params.copies_in_x - 1), j \in 0..(params.copies_in_y - 1) :
                   Cardinality(OfKindAndCopy(kind, <<i, j>>)) = PerCopy(kind)
            /\ Cardinality(OfKind(kind)) = PerCopy(kind) * NumCopies
C8_Witness ==
    /\ pc = "done"
    /\ params.x_cols = 2 /\ params.y_cols = 2 /\ params.rows = 2
    /\ params.copies_in_x = 2
    /\ Cardinality(OfKind("Column")) = 8
    /\ Cardinality(OfKind("Purlin")) = 8

(* C9: whenever a member is added, or its addition requested, in the       *)
(* purlin phase or the rafter phase, both its node names are already nodes *)
(* of the structural model.                                                *)
C9_MemberNodesExist ==
    [][ /\ \A m \in members' \ members :
               m[1] \in DOMAIN nodes /\ m[2] \in DOMAIN nodes
        /\ \A k \in (Len(requests) + 1)..Len(requests') :
               /\ requests'[k].i_node \in DOMAIN nodes
               /\ requests'[k].j_node \in DOMAIN nodes ]_vars
C9_Witness ==
    /\ Cardinality(members) >= 4
    /\ \E k \in DOMAIN requests : requests[k].phase = "rafter"

(* C10: two points get the same node identifier exactly when their x, y    *)
(* and z agree after rounding to 3 decimals, whichever phase formats them. *)
C10_RoundedKeyIdentity ==
    \A a \in FormattedPoints, b \in FormattedPoints :
        SameRounded(a, b) <=> NodeName(a) = NodeName(b)

(* C11: when total_width or total_slope_length is not positive, the call  *)
(* fails before any component primitive is emitted.                       *)
NonPositiveExtent == total_width(params) <= 0 \/ total_slope_length(params) <= 0
C11_FailFastOnNonPositiveExtent ==
    NonPositiveExtent =>
        /\ meshes = <<>>
        /\ pc \in {"columns", "raised"}

(* C12: a purlin whose node list for chaining has fewer than two nodes     *)
(* makes the call raise; the call never goes on with that purlin left      *)
(* without members.                                                        *)
C12_ShortChainRaises ==
    (pidx > 0 /\ pc # "purlin_members" /\ Len(node_names) < 2) => pc = "raised"

(* C13: a failure raised by the structural engine while a node is being    *)
(* registered ends the call: the call never continues past an add_node     *)
(* that raised.                                                            *)
\* the add_node calls of the purlin in hand that raised (one per point whose
\* name was not kept)
RaisedAddNodeCalls == Len(one_purlin_nodes) - Len(node_names)
C13_EngineFailurePropagates ==
    PurlinRegistered => RaisedAddNodeCalls = 0

(* C14: a second call with the same parameters ends as the first did, with  *)
(* the same primitives, the same FE point list, the same node names and the *)
(* same member names; the default-argument lists, the only objects that     *)
(* outlive a call, are as they were before the first call.                  *)
CallEnded == pc \in {"done", "raised"}
LocalX(n) == meshes[n].center[1] - params.x_gap * meshes[n].copy[1]
C15_SingleColumnCentered ==
    params.x_cols = 1 =>
        /\ \A n \in OfKind("Column") \cup OfKind("Rafter") :
               2 * LocalX(n) = total_width(params)
        /\ \A k \in DOMAIN rafter_x_nodes : 2 * rafter_x_nodes[k] = total_width(params)
C15_Witness ==
    /\ params.x_cols = 1
    /\ params.copies_in_x > 1
    /\ params.y_cols > 1
    /\ OfKind("Column") # {}
    /\ OfKind("Rafter") # {}
    /\ rafter_x_nodes # <<>>

(* C16: the divisors of the two column spacing formulas are at least 1 for  *)
(* every x_cols >= 1 and y_cols >= 1 (the count of gaps, or 1 for a single  *)
(* column), so the spacings are never computed with a zero divisor.         *)
C16_SpacingDivisorsPositive ==
    /\ div_x(params) >= 1
    /\ div_y(params) >= 1
    /\ params.x_cols > 1 => div_x(params) = params.x_cols - 1
    /\ params.y_cols > 1 => div_y(params) = params.y_cols - 1
C16_Witness ==
    /\ params.x_cols = 1
    /\ params.y_cols = 1
    /\ OfKind("Column") # {}
    /\ column_y_pos # <<>>

(* C17: column height does not decrease with ground Y-position: of any two  *)
(* support columns, the one standing at the larger (or equal) Y is at least *)
(* as high.                                                                 *)
C17_HeightMonotoneInY ==
    /\ Len(column_heights) = Len(column_y_pos)
    /\ \A k1, k2 \in DOMAIN column_y_pos :
           column_y_pos[k1] <= column_y_pos[k2]
               => column_heights[k1] <= column_heights[k2]
C17_Witness ==
    /\ params.angle = 37
    /\ Len(column_y_pos) >= 2
    /\ column_y_pos[1] < column_y_pos[2]
    /\ column_heights[1] < column_heights[2]

(* C18: the primitive sequence of a call that got past the point           *)
(* collection (the sequence it returns) is one primitive per column,       *)
(* block, rafter, purlin and panel of every array copy, then one           *)
(* point-cloud primitive that holds all FE points, and nothing else.       *)
\* the FE points: the points of the four collected lists, and the coordinates
\* of every node of the structural model
CollectedPoints ==
    UNION {Range(raf_pur_inter_points[i][j]) :
               i \in DOMAIN raf_pur_inter_points, j \in 1..2}
        \cup UNION {Range(pur_points[i][j]) : i \in DOMAIN pur_points, j \in 1..2}
        \cup UNION {Range(pur_pan_inter_points[i][j]) :
                        i \in DOMAIN pur_pan_inter_points, j \in 1..2}
        \cup UNION {Range(column_coords[i]) : i \in DOMAIN column_coords}
FEPoints == CollectedPoints \cup Range(nodes)
PointsCollected == ComponentsEmitted /\ pc # "fea"
PerCopyOf(kind) == IF kind = "Panel" THEN params.rows * params.cols ELSE PerCopy(kind)
C18_PrimitiveSequence ==
    PointsCollected =>
        LET last == Len(meshes)
            \* the components the primitives before the last stand for
            components ==
                {<<meshes[n].kind, meshes[n].copy, meshes[n].slot>> :
                     n \in 1..(last - 1)}
        IN  /\ last > 0
            /\ \A n \in 1..(last - 1) :
                   /\ meshes[n].kind \in Kinds
                   /\ meshes[n].slot \in 0..(PerCopyOf(meshes[n].kind) - 1)
            /\ Cardinality(components) = last - 1
            /\ \A kind \in Kinds :
                   Cardinality(OfKind(kind)) = PerCopyOf(kind) * NumCopies
            /\ meshes[last].kind = "FEA Nodes"
            /\ Range(meshes[last].points) = FEPoints
C18_Witness ==
    /\ pc = "done"
    /\ params.x_cols = 2 /\ params.y_cols = 2 /\ params.copies_in_y = 2
    /\ meshes[Len(meshes)].kind = "FEA Nodes"
    /\ Len(meshes) = 1 + 2 * (4 + 4 + 2 + 2 * params.rows + params.rows * params.cols)
    /\ Cardinality(DOMAIN nodes) > 4

(* C19: the list of column segments holds one ground-to-soffit segment per  *)
(* support column of each array copy: x_cols * y_cols * copies_in_x *       *)
(* copies_in_y segments, no two of them the same.                           *)
C19_OneSegmentPerColumn ==
    ComponentsEmitted =>
        /\ Len(column_coords) = params.x_cols * params.y_cols * NumCopies
        /\ \A a, b \in DOMAIN column_coords :
               column_coords[a] = column_coords[b] => a = b

(* C20: every column point gathered into the point list of rafter i has the *)
(* X of rafter i and is the top (soffit) point of a column segment standing *)
(* under that rafter.                                                       *)
\* the points of the rafter in hand that lines 613-621 appended, after the
\* purlin crossings of lines 603-611
GatheredColumnPoints ==
    {one_rafter_nodes[n] :
        n \in (2 * Len(raf_pur_inter_points) + 1)..Len(one_rafter_nodes)}
SoffitPointsUnder(x) ==
    {column_coords[k][2] : k \in {m \in DOMAIN column_coords : column_coords[m][1][1] = x}}
C20_RafterColumnPoints ==
    pc = "rafter_members" =>
        \A pt \in GatheredColumnPoints :
            /\ pt[1] = rafter_x_nodes[ridx + 1]
            /\ pt \in SoffitPointsUnder(rafter_x_nodes[ridx + 1])

(* C21: every column segment goes from (x, y, 0) to (x, y, z) with the same *)
(* x and y; all rafter-purlin intersection points lie, in the Y-Z plane, on *)
(* one straight line (the line through the upper and the lower crossing of  *)
(* a rafter), and the top of every segment is on that line at the segment's *)
(* Y, to within one tick of Z, the resolution of the coordinates.           *)
Abs(v) == IF v < 0 THEN -v ELSE v
Crossings ==
    UNION {Range(raf_pur_inter_points[i][j]) :
               i \in DOMAIN raf_pur_inter_points, j \in 1..2}
\* how far pt is off the line through a and b, times the Y-distance of a and b
OffLineYZ(pt, a, b) ==
    (pt[3] - a[3]) * (b[2] - a[2]) - (b[3] - a[3]) * (pt[2] - a[2])
C21_ColumnTopsOnSlopeLine ==
    ComponentsEmitted =>
        LET a == raf_pur_inter_points[1][1][1]
            b == raf_pur_inter_points[1][2][1]
        IN  /\ a[2] # b[2]
            /\ \A i \in DOMAIN raf_pur_inter_points, j \in 1..2 :
                   \A k \in DOMAIN raf_pur_inter_points[i][j] :
                       OffLineYZ(raf_pur_inter_points[i][j][k], a, b) = 0
            /\ \A n \in DOMAIN column_coords :
                   LET seg == column_coords[n]
                   IN  /\ Len(seg) = 2
                       /\ seg[1][3] = 0
                       /\ seg[2][1] = seg[1][1]
                       /\ seg[2][2] = seg[1][2]
                       /\ Abs(OffLineYZ(seg[2], a, b)) < Abs(b[2] - a[2])
C21_Witness ==
    /\ pc = "done"
    /\ params.angle = 37 /\ params.rows = 2 /\ params.y_cols = 2
    /\ Cardinality({seg[2][3] : seg \in Range(column_coords)}) = 2
    /\ Cardinality({a[2] : a \in Crossings}) = 4

(* C22: after the column loops, column_heights and column_y_pos have y_cols *)
(* entries each, entry k of both belongs to column grid row k (it is the Y  *)
(* and the height of the columns of that row, and the height is             *)
(* col_min_height + Y * tan(angle)), and the top height of the k-th segment *)
(* of every rafter belongs to the same row: it exceeds column_heights[k] by *)
(* the same amount, 1.5 * raf_len, in every row.                            *)
ColumnsGenerated == pc # "columns"
\* the columns of grid row y_i (0-based) of the last array copy
ColumnsOfRow(y_i) ==
    {n \in OfKindAndCopy("Column",
                         <<params.copies_in_x - 1, params.copies_in_y - 1>>) :
        meshes[n].slot \div params.x_cols = y_i}
C22_ColumnListsAligned ==
    /\ ColumnsGenerated =>
           /\ Len(column_heights) = params.y_cols
           /\ Len(column_y_pos) = params.y_cols
           /\ \A k \in 1..params.y_cols :
                  /\ column_heights[k]
                         = params.col_min_height + TanOf(params.angle, column_y_pos[k])
                  /\ ColumnsOfRow(k - 1) # {}
                  /\ \A n \in ColumnsOfRow(k - 1) :
                         /\ meshes[n].center[2]
                                = column_y_pos[k] + params.y_gap * meshes[n].copy[2]
                         /\ meshes[n].center[3] = column_heights[k] \div 2
    /\ ComponentsEmitted =>
           \A n \in DOMAIN column_coords :
               LET k == ((n - 1) % params.y_cols) + 1
               IN  /\ column_coords[n][1][2] = column_y_pos[k]
                   /\ 2 * (column_coords[n][2][3] - column_heights[k])
                          = 3 * params.raf_len
C22_Witness ==
    /\ pc = "fea"
    /\ params.angle = 37 /\ params.y_cols = 3 /\ params.x_cols = 2
    /\ column_heights[1] < column_heights[2] /\ column_heights[2] < column_heights[3]
    /\ Len(column_coords) >= 6

(* C23: whatever the sign of the inward offset rafter_off = purlin_offset - *)
(* rafter_purlin_offset, every rafter is centered on the slope: its         *)
(* midpoint ground-Y (without the offset of its array copy) is              *)
(* total_ground_length / 2, and its span is total_slope_length minus the    *)
(* offset at both ends.                                                     *)
RaftersGenerated == pc \notin {"columns", "rafters"}
LocalY(n) == meshes[n].center[2] - params.y_gap * meshes[n].copy[2]
C23_RafterCentered ==
    RaftersGenerated =>
        /\ \A n \in OfKind("Rafter") : 2 * LocalY(n) = total_ground_length(params)
        /\ rafter_height(params)
               = total_slope_length(params) - 2 * rafter_off(params)

(* C24: a panel does not intersect the purlins of its row: at the ground Y  *)
(* of each of the two purlins, the height of the panel's mid-plane exceeds  *)
(* the height of the purlin's centerline by at least half the panel         *)
(* thickness plus half the purlin depth (pur_len).  Stated for the first    *)
(* array copy, whose primitives carry no copy offset.                       *)
\* the height at ground Y = y of the mid-plane of the panel that is primitive n
PanelPlaneZ(n, y) ==
    meshes[n].center[3] + TanOf(params.angle, y - meshes[n].center[2])
\* the purlins of the row of panel n, in the same array copy
PurlinsUnder(n) ==
    {m \in OfKindAndCopy("Purlin", meshes[n].copy) :
        meshes[m].slot \div 2 = meshes[n].slot % params.rows}
C24_PanelClearsPurlins ==
    ComponentsEmitted =>
        \A n \in OfKindAndCopy("Panel", <<0, 0>>) :
            /\ Cardinality(PurlinsUnder(n)) = 2
            /\ \A m \in PurlinsUnder(n) :
                   2 * (PanelPlaneZ(n, meshes[m].center[2]) - meshes[m].center[3])
                       >= params.panel_thickness + params.pur_len

(* C25: when the two purlins of a row have the same ground Y (purlin        *)
(* spacing 0), the zero denominator of the column slope fit is not divided  *)
(* by: the call never ends in a division by zero.                           *)
C25_ZeroDenominatorNotDivided ==
    purlin_spacing(params) = 0 => err # "ZeroDivisionError"

(* C26: no two member-creation requests of a call carry the same member     *)
(* name (the same ordered pair of node names); in particular no request of  *)
(* the rafter phase repeats a request of the purlin phase.                  *)
RequestedName(q) == MemberName(requests[q].i_node, requests[q].j_node)
C26_MemberRequestsDistinct ==
    \A a, b \in DOMAIN requests : RequestedName(a) = RequestedName(b) => a = b

C28_PerPurlinListLengths ==
    ComponentsEmitted =>
        /\ Len(raf_pur_inter_points) = params.rows * NumCopies
        /\ Len(pur_pan_inter_points) = params.rows * NumCopies
        /\ \A i \in DOMAIN raf_pur_inter_points, j \in 1..2 :
               Len(raf_pur_inter_points[i][j]) = params.x_cols
        /\ \A i \in DOMAIN pur_pan_inter_points, j \in 1..2 :
               Len(pur_pan_inter_points[i][j]) = params.cols

(* C29: when the call returns, the FE point list and the structural model   *)
(* describe the same node set: the names of the points of all_fea_nodes are *)
(* exactly the names of the model's nodes.                                  *)
FeaPointNames == {NodeName(all_fea_nodes[n]) : n \in DOMAIN all_fea_nodes}
C29_PointListMatchesModel ==
    pc = "done" => FeaPointNames = DOMAIN nodes

====
